---- MODULE Spec2Model ----
(***************************************************************************)
(* A model of package timeseries (src/timeseries.go).                      *)
(*                                                                         *)
(* A Timeseries is a pair of Go slices, Xs and Ys.  A Go slice is a header *)
(* (backing array, offset, length, capacity); several headers may refer to *)
(* the same backing array, which is what makes Slice/After/Before/Between  *)
(* "shallow copies".  The model keeps the backing arrays in mem and the    *)
(* headers of three series, t, v and u, in ts.                             *)
(*                                                                         *)
(* float64 values are modelled by integers: the operations modelled here   *)
(* only compare and copy them.  NaN is outside the model.                  *)
(***************************************************************************)
EXTENDS Integers, Sequences, FiniteSets, TLC

VARIABLES
    mem,    \* backing arrays: buffer id -> sequence of values (<<>> = unallocated)
    ts,     \* the series: name -> [Xs |-> slice header, Ys |-> slice header]
    op,     \* the last call: [name |-> method, recv |-> receiver], and for the
            \* calls that return numbers also ret |-> what it returned
    panic,  \* the message the last call panicked with, "" when it returned
    n,      \* what the last Len() returned (-1 when the last call was not Len)
    eq,     \* what the last Equal() returned
    calls,  \* name -> [built |-> the series started empty and was only
            \*                     changed by Append and Sort since,
            \*          app   |-> the points Append was called with on it]
    view,   \* [is |-> v was returned by Slice/After/Before/Between on (a view
            \*         of) t and neither was appended to since,
            \*  lo |-> the index of t at which v starts]
    sorted  \* the names whose last mutating call was Sort()

vars == <<mem, ts, op, panic, n, eq, calls, view, sorted>>

---------------------------------------------------------------------------
(* Bounds *)

MaxLen == 3

XVals == {2, 4}
YVals == {1, 2}
\* the alpha and beta of the lines y = alpha + beta*x
LineVals == 0..1
\* query arguments: below, equal to, between and above the Xs
XArgs == 1..5
\* arguments of Slice: below 0, within the length, up to and beyond the capacity
SliceArgs == -1..(MaxLen + 1)

Names == {"t", "v", "u"}
\* at most two live buffers per series, and two more while Append reallocates
Bufs == 1..(2 * Cardinality(Names) + 2)

---------------------------------------------------------------------------
(* Go slices *)

\* the nil slice
Nil == [buf |-> 0, off |-> 0, len |-> 0, cap |-> 0]

\* Timeseries{}
emptyTimeseries == [Xs |-> Nil, Ys |-> Nil]

\* s[i], 0 <= i < len(s)
Index(m, s, i) == m[s.buf][s.off + i + 1]

\* the elements of s, in order
Elems(m, s) == [k \in 1..s.len |-> m[s.buf][s.off + k]]

\* s[lo:hi] is legal when 0 <= lo <= hi <= cap(s); it panics otherwise
SliceOk(s, lo, hi) == 0 <= lo /\ lo <= hi /\ hi <= s.cap

\* s[lo:hi]: the same backing array, from lo on
GoSlice(s, lo, hi) ==
    [buf |-> s.buf, off |-> s.off + lo, len |-> hi - lo, cap |-> s.cap - lo]

\* The allocator: a fresh array gets the smallest id that no header in use
\* refers to (used: the ids that the headers other than the one being
\* assigned refer to).
FreeBuf(used) == CHOOSE b \in Bufs : b \notin used /\ \A c \in 1..(b - 1) : c \in used

\* make([]float64, length): a fresh zeroed array
Make(m, used, length) ==
    IF length = 0
    THEN [mem |-> m, s |-> Nil]
    ELSE LET b == FreeBuf(used) IN
         [mem |-> [m EXCEPT ![b] = [k \in 1..length |-> 0]],
          s   |-> [buf |-> b, off |-> 0, len |-> length, cap |-> length]]

\* the capacity append gives a slice it has to reallocate
GrowCap(cap) == IF cap = 0 THEN 1 ELSE 2 * cap

\* append that always copies into a new array
GoAppendCopies(m, used, s, x) ==
    LET b == FreeBuf(used)
        c == IF s.len < s.cap THEN s.cap ELSE GrowCap(s.cap)
    IN  [mem |-> [m EXCEPT ![b] = [k \in 1..c |->
                                     IF k <= s.len THEN Index(m, s, k - 1)
                                     ELSE IF k = s.len + 1 THEN x ELSE 0]],
         s   |-> [buf |-> b, off |-> 0, len |-> s.len + 1, cap |-> c]]

\* append(s, x): in place when the capacity allows it, in a larger copy otherwise
GoAppend(m, used, s, x) ==
    IF s.len < s.cap
    THEN [mem |-> [m EXCEPT ![s.buf] = [@ EXCEPT ![s.off + s.len + 1] = x]],
          s   |-> [s EXCEPT !.len = s.len + 1]]
    ELSE LET b == FreeBuf(used)
             c == GrowCap(s.cap)
         IN  [mem |-> [m EXCEPT ![b] = [k \in 1..c |->
                                          IF k <= s.len THEN Index(m, s, k - 1)
                                          ELSE IF k = s.len + 1 THEN x ELSE 0]],
              s   |-> [buf |-> b, off |-> 0, len |-> s.len + 1, cap |-> c]]

\* the arrays the headers of the series in rs refer to
BufsOf(series, rs) ==
    UNION {{series[r].Xs.buf, series[r].Ys.buf} : r \in rs} \ {0}

\* arrays no header refers to are collected
Collect(m, series) ==
    LET live == BufsOf(series, Names) IN
    [b \in Bufs |-> IF b \in live THEN m[b] ELSE <<>>]

---------------------------------------------------------------------------
(* The methods of Timeseries, as functions of the memory and the receiver *)

MsgLength == "timeseries: Xs and Ys length mismatch"
MsgSliceLength == "timeseries: Xs and Ys slice length mismatch"
\* the Go runtime's panic for s[lo:hi] out of range
MsgBounds == "runtime error: slice bounds out of range"
MsgStat == "stat: slice length mismatch"
MsgEmpty == "timeseries: empty timeseries"

\* a call that panicked, and a call that returned a series
Raise(msg, m) == [panic |-> msg, mem |-> m, ret |-> emptyTimeseries]
Return(m, t) == [panic |-> "", mem |-> m, ret |-> t]

\* t.Len()
TsLen(t) ==
    IF t.Xs.len # t.Ys.len
    THEN [panic |-> MsgSliceLength, n |-> -1]
    ELSE [panic |-> "", n |-> t.Xs.len]

\* t.First()
First(m, t) ==
    IF TsLen(t).panic # ""
    THEN [panic |-> TsLen(t).panic, ret |-> <<>>]
    ELSE IF TsLen(t).n = 0
    THEN [panic |-> MsgEmpty, ret |-> <<>>]
    ELSE [panic |-> "", ret |-> <<Index(m, t.Xs, 0), Index(m, t.Ys, 0)>>]

\* Last that takes the y of the first point
LastYsFirst(m, t) ==
    IF TsLen(t).panic # ""
    THEN [panic |-> TsLen(t).panic, ret |-> <<>>]
    ELSE IF TsLen(t).n = 0
    THEN [panic |-> MsgEmpty, ret |-> <<>>]
    ELSE [panic |-> "", ret |-> <<Index(m, t.Xs, TsLen(t).n - 1), Index(m, t.Ys, 0)>>]

\* t.Last()
Last(m, t) ==
    IF TsLen(t).panic # ""
    THEN [panic |-> TsLen(t).panic, ret |-> <<>>]
    ELSE IF TsLen(t).n = 0
    THEN [panic |-> MsgEmpty, ret |-> <<>>]
    ELSE [panic |-> "", ret |-> <<Index(m, t.Xs, TsLen(t).n - 1),
                                  Index(m, t.Ys, TsLen(t).n - 1)>>]

\* Equal that compares the Xs and forgets the Ys
EqualXs(m, t, other) ==
    IF t.Xs.len # t.Ys.len \/ other.Xs.len # other.Ys.len
    THEN [panic |-> MsgLength, eq |-> FALSE]
    ELSE IF TsLen(t).n # TsLen(other).n
    THEN [panic |-> "", eq |-> FALSE]
    ELSE [panic |-> "",
          eq |-> ~ \E i \in 0..(TsLen(t).n - 1) :
                      Index(m, t.Xs, i) # Index(m, other.Xs, i)]

\* t.Equal(other)
Equal(m, t, other) ==
    IF t.Xs.len # t.Ys.len \/ other.Xs.len # other.Ys.len
    THEN [panic |-> MsgLength, eq |-> FALSE]
    ELSE IF TsLen(t).n # TsLen(other).n
    THEN [panic |-> "", eq |-> FALSE]
    ELSE [panic |-> "",
          eq |-> ~ \E i \in 0..(TsLen(t).n - 1) :
                      \/ Index(m, t.Xs, i) # Index(m, other.Xs, i)
                      \/ Index(m, t.Ys, i) # Index(m, other.Ys, i)]

\* sort.Search that goes on below h when f(h) is true, and so loses h
RECURSIVE SearchBelow(_, _, _, _, _)
SearchBelow(m, t, x, i, j) ==
    IF i < j
    THEN LET h == (i + j) \div 2 IN
         IF ~ (Index(m, t.Xs, h) >= x)
         THEN SearchBelow(m, t, x, h + 1, j)
         ELSE SearchBelow(m, t, x, i, h - 1)
    ELSE i

\* sort.Search(n, f) with f(i) = t.Xs[i] >= x: the loop, from i and j on
RECURSIVE Search(_, _, _, _, _)
Search(m, t, x, i, j) ==
    IF i < j
    THEN LET h == (i + j) \div 2 IN
         IF ~ (Index(m, t.Xs, h) >= x)
         THEN Search(m, t, x, h + 1, j)
         ELSE Search(m, t, x, i, h)
    ELSE i

\* sort.Search with f(i) = t.Xs[i] > x
RECURSIVE SearchStrict(_, _, _, _, _)
SearchStrict(m, t, x, i, j) ==
    IF i < j
    THEN LET h == (i + j) \div 2 IN
         IF ~ (Index(m, t.Xs, h) > x)
         THEN SearchStrict(m, t, x, h + 1, j)
         ELSE SearchStrict(m, t, x, i, h)
    ELSE i

\* findPivot with > for >=: the first index after the elements equal to x
findPivotStrict(m, t, x) == SearchStrict(m, t, x, 0, TsLen(t).n)

\* t.findPivot(x)
findPivot(m, t, x) == Search(m, t, x, 0, TsLen(t).n)

\* After with the pivot left out: t.Xs[i+1:]
AfterSkipsPivot(m, t, x) ==
    IF t.Xs.len # t.Ys.len
    THEN Raise(MsgLength, m)
    ELSE LET i == findPivot(m, t, x) IN
         IF i = TsLen(t).n
         THEN Return(m, emptyTimeseries)
         ELSE Return(m, [Xs |-> GoSlice(t.Xs, i + 1, t.Xs.len),
                         Ys |-> GoSlice(t.Ys, i + 1, t.Ys.len)])

\* t.After(x)
After(m, t, x) ==
    IF t.Xs.len # t.Ys.len
    THEN Raise(MsgLength, m)
    ELSE LET i == findPivot(m, t, x) IN
         IF i = TsLen(t).n
         THEN Return(m, emptyTimeseries)
         ELSE Return(m, [Xs |-> GoSlice(t.Xs, i, t.Xs.len),
                         Ys |-> GoSlice(t.Ys, i, t.Ys.len)])

\* Before with an inclusive bound: the items having Xs <= x
BeforeInclusive(m, t, x) ==
    IF t.Xs.len # t.Ys.len
    THEN Raise(MsgLength, m)
    ELSE LET j == findPivotStrict(m, t, x) IN
         IF j = TsLen(t).n
         THEN Return(m, t)
         ELSE Return(m, [Xs |-> GoSlice(t.Xs, 0, j),
                         Ys |-> GoSlice(t.Ys, 0, j)])

\* t.Before(x)
Before(m, t, x) ==
    IF t.Xs.len # t.Ys.len
    THEN Raise(MsgLength, m)
    ELSE LET j == findPivot(m, t, x) IN
         IF j = TsLen(t).n
         THEN Return(m, t)
         ELSE Return(m, [Xs |-> GoSlice(t.Xs, 0, j),
                         Ys |-> GoSlice(t.Ys, 0, j)])

\* Between with its bounds exchanged: t.After(x2).Before(x1)
BetweenExchanged(m, t, x1, x2) ==
    IF t.Xs.len # t.Ys.len
    THEN Raise(MsgLength, m)
    ELSE Before(m, After(m, t, x2).ret, x1)

\* t.Between(x1, x2)
Between(m, t, x1, x2) ==
    IF t.Xs.len # t.Ys.len
    THEN Raise(MsgLength, m)
    ELSE Before(m, After(m, t, x1).ret, x2)

\* Append that forgets Ys
TsAppendXsOnly(m, used, t, x, y) ==
    IF t.Xs.len # t.Ys.len
    THEN Raise(MsgSliceLength, m)
    ELSE LET ax == GoAppend(m, used \cup {t.Ys.buf}, t.Xs, x)
         IN  Return(ax.mem, [Xs |-> ax.s, Ys |-> t.Ys])

\* t.Append(x, y); ret is t after the call (used: the arrays other series
\* refer to)
TsAppend(m, used, t, x, y) ==
    IF t.Xs.len # t.Ys.len
    THEN Raise(MsgSliceLength, m)
    ELSE LET ax == GoAppend(m, used \cup {t.Ys.buf}, t.Xs, x)
             ay == GoAppend(ax.mem, used \cup {ax.s.buf}, t.Ys, y)
         IN  Return(ay.mem, [Xs |-> ax.s, Ys |-> ay.s])

\* a / b on float64, kept as the fraction
Quot(a, b) == [num |-> a, den |-> b]

\* the loop of MeanSquaredError from index i on: mse and sumWeights are the
\* sums so far, w the weight in use
RECURSIVE mseLoop(_, _, _, _, _, _, _, _, _, _)
mseLoop(m, x, y, weights, alpha, beta, i, mse, sumWeights, w) ==
    IF i < x.len
    THEN LET wi == IF weights # Nil THEN Index(m, weights, i) ELSE w
             fi == alpha + beta * Index(m, x, i)
             d == fi - Index(m, y, i)
         IN  mseLoop(m, x, y, weights, alpha, beta, i + 1,
                     mse + wi * d * d, sumWeights + wi, wi)
    ELSE Quot(mse, sumWeights)

\* MeanSquaredError whose weight without weights is 0
MeanSquaredErrorNoWeight(m, x, y, weights, alpha, beta) ==
    IF x.len # y.len
    THEN [panic |-> MsgStat, mse |-> Quot(0, 0)]
    ELSE IF weights # Nil /\ weights.len # x.len
    THEN [panic |-> MsgStat, mse |-> Quot(0, 0)]
    ELSE [panic |-> "", mse |-> mseLoop(m, x, y, weights, alpha, beta, 0, 0, 0, 0)]

\* MeanSquaredError(x, y, weights, alpha, beta); weights = Nil is weights == nil
MeanSquaredError(m, x, y, weights, alpha, beta) ==
    IF x.len # y.len
    THEN [panic |-> MsgStat, mse |-> Quot(0, 0)]
    ELSE IF weights # Nil /\ weights.len # x.len
    THEN [panic |-> MsgStat, mse |-> Quot(0, 0)]
    ELSE [panic |-> "", mse |-> mseLoop(m, x, y, weights, alpha, beta, 0, 0, 0, 1)]

\* makeTimeseries(length), length > 0
makeTimeseries(m, used, length) ==
    LET ax == Make(m, used, length)
        ay == Make(ax.mem, used \cup {ax.s.buf}, length)
    IN  Return(ay.mem, [Xs |-> ax.s, Ys |-> ay.s])

\* Difference that takes the x of the earlier point of each pair
DifferenceXsEarlier(m, used, t) ==
    IF t.Xs.len # t.Ys.len
    THEN Raise(MsgSliceLength, m)
    ELSE IF TsLen(t).n < 2
    THEN Return(m, emptyTimeseries)
    ELSE LET mk == makeTimeseries(m, used, TsLen(t).n - 1)
             ret == mk.ret
         IN  Return([mk.mem EXCEPT
                        ![ret.Ys.buf] = [k \in 1..ret.Ys.len |->
                                           Index(m, t.Ys, k) - Index(m, t.Ys, k - 1)],
                        ![ret.Xs.buf] = [k \in 1..ret.Xs.len |-> Index(m, t.Xs, k - 1)]],
                    ret)

\* t.Difference(); ret is the zero Timeseries when t has fewer than two
\* points (used: the arrays in use)
Difference(m, used, t) ==
    IF t.Xs.len # t.Ys.len
    THEN Raise(MsgSliceLength, m)
    ELSE IF TsLen(t).n < 2
    THEN Return(m, emptyTimeseries)
    ELSE LET mk == makeTimeseries(m, used, TsLen(t).n - 1)
             ret == mk.ret
         IN  Return([mk.mem EXCEPT
                        ![ret.Ys.buf] = [k \in 1..ret.Ys.len |->
                                           Index(m, t.Ys, k) - Index(m, t.Ys, k - 1)],
                        ![ret.Xs.buf] = [k \in 1..ret.Xs.len |-> Index(m, t.Xs, k)]],
                    ret)

\* Slice that copies the elements into arrays of its own
SliceCopy(m, t, start, end) ==
    IF t.Xs.len # t.Ys.len
    THEN Raise(MsgSliceLength, m)
    ELSE IF ~ SliceOk(t.Xs, start, end) \/ ~ SliceOk(t.Ys, start, end)
    THEN Raise(MsgBounds, m)
    ELSE IF start = end
    THEN Return(m, emptyTimeseries)
    ELSE LET inUse == {b \in Bufs : m[b] # <<>>}
             bx == FreeBuf(inUse)
             by == FreeBuf(inUse \cup {bx})
             hdr(b) == [buf |-> b, off |-> 0, len |-> end - start, cap |-> end - start]
         IN  Return([m EXCEPT ![bx] = Elems(m, GoSlice(t.Xs, start, end)),
                              ![by] = Elems(m, GoSlice(t.Ys, start, end))],
                    [Xs |-> hdr(bx), Ys |-> hdr(by)])

\* Slice with slice expressions bounded by the length, not the capacity
SliceToLen(m, t, start, end) ==
    IF t.Xs.len # t.Ys.len
    THEN Raise(MsgSliceLength, m)
    ELSE IF ~ (SliceOk(t.Xs, start, end) /\ end <= t.Xs.len)
            \/ ~ (SliceOk(t.Ys, start, end) /\ end <= t.Ys.len)
    THEN Raise(MsgBounds, m)
    ELSE Return(m, [Xs |-> GoSlice(t.Xs, start, end),
                    Ys |-> GoSlice(t.Ys, start, end)])

\* t.Slice(start, end)
Slice(m, t, start, end) ==
    IF t.Xs.len # t.Ys.len
    THEN Raise(MsgSliceLength, m)
    ELSE IF ~ SliceOk(t.Xs, start, end) \/ ~ SliceOk(t.Ys, start, end)
    THEN Raise(MsgBounds, m)
    ELSE Return(m, [Xs |-> GoSlice(t.Xs, start, end),
                    Ys |-> GoSlice(t.Ys, start, end)])

\* Swap that leaves Ys where they are
SwapXs(m, t, i, j) ==
    [m EXCEPT ![t.Xs.buf] =
        [@ EXCEPT ![t.Xs.off + i + 1] = Index(m, t.Xs, j),
                  ![t.Xs.off + j + 1] = Index(m, t.Xs, i)]]

\* t.Swap(i, j): the memory after it
Swap(m, t, i, j) ==
    LET mx == [m EXCEPT ![t.Xs.buf] =
                  [@ EXCEPT ![t.Xs.off + i + 1] = Index(m, t.Xs, j),
                            ![t.Xs.off + j + 1] = Index(m, t.Xs, i)]]
    IN  [mx EXCEPT ![t.Ys.buf] =
            [@ EXCEPT ![t.Ys.off + i + 1] = Index(mx, t.Ys, j),
                      ![t.Ys.off + j + 1] = Index(mx, t.Ys, i)]]

\* t.Less(i, j)
Less(m, t, i, j) == Index(m, t.Xs, i) < Index(m, t.Xs, j)

\* the memories that calls of t.Swap lead to: those of done, and those
\* reached from the ones in new (Swap(i, j) is Swap(j, i), and Swap(i, i)
\* changes nothing)
RECURSIVE Swapped(_, _, _)
Swapped(done, new, t) ==
    IF new = {} THEN done
    ELSE LET all == done \cup new
             next == {Swap(m, t, i, j) :
                        m \in new, i \in 0..(t.Xs.len - 1), j \in 1..(t.Xs.len - 1)}
         IN  Swapped(all, next \ all, t)

\* a sort.Sort that leaves t as it is
sortNothing(m, t) == {m}

\* sort.Sort(t): it rearranges t with t.Swap until no element is t.Less than
\* an earlier one; the order of elements neither of which is Less than the
\* other is not specified (sort.Sort is not stable)
sortSort(m, t) ==
    {m2 \in Swapped({}, {m}, t) :
        \A i \in 0..(t.Xs.len - 1), j \in 0..(t.Xs.len - 1) :
            i < j => ~ Less(m2, t, j, i)}

\* t.Sort(): the outcomes the call can have
Sort(m, t) ==
    IF t.Xs.len # t.Ys.len
    THEN {Raise(MsgSliceLength, m)}
    ELSE {Return(m2, t) : m2 \in sortSort(m, t)}

---------------------------------------------------------------------------
(* The state machine: a program that holds the series t, v and u, calls    *)
(* the methods on them and keeps the views it gets in v                    *)

\* the sequences over S of length at most k
SeqsUpTo(S, k) == UNION {[1..l -> S] : l \in 0..k}

\* []float64{xs...}
SliceLiteral(m, used, xs) ==
    LET a == Make(m, used, Len(xs)) IN
    IF Len(xs) = 0 THEN a
    ELSE [mem |-> [a.mem EXCEPT ![a.s.buf] = xs], s |-> a.s]

\* Timeseries{Xs: []float64{xs...}, Ys: []float64{ys...}}
Literal(m, xs, ys) ==
    LET ax == SliceLiteral(m, {}, xs)
        ay == SliceLiteral(ax.mem, {ax.s.buf}, ys)
    IN  Return(ay.mem, [Xs |-> ax.s, Ys |-> ay.s])

NoMem == [b \in Bufs |-> <<>>]
NoView == [is |-> FALSE, lo |-> 0]
NotBuilt == [built |-> FALSE, app |-> <<>>]

\* t is any series a program can write down, of equal lengths or not, sorted
\* or not; v and u are empty
InitWith(xs, ys) ==
        LET l == Literal(NoMem, xs, ys) IN
        /\ mem = l.mem
        /\ ts = [r \in Names |-> IF r = "t" THEN l.ret ELSE emptyTimeseries]
        /\ op = [name |-> "new", recv |-> "t"]
        /\ panic = ""
        /\ n = -1
        /\ eq = FALSE
        /\ calls = [r \in Names |->
                       [built |-> ~ (r = "t" /\ (xs # <<>> \/ ys # <<>>)), app |-> <<>>]]
        /\ view = NoView
        /\ sorted = {}

Init ==
    \E xs \in SeqsUpTo(XVals, MaxLen), ys \in SeqsUpTo(YVals, MaxLen) :
        InitWith(xs, ys)

\* a call that panicked left everything as it was
Panicked(name, r, msg) ==
    /\ op' = [name |-> name, recv |-> r]
    /\ panic' = msg
    /\ n' = -1
    /\ eq' = FALSE
    /\ UNCHANGED <<mem, ts, calls, view, sorted>>

\* v = r.<name>(...) returned res.ret, which starts at index lo of r
Viewed(name, r, res, lo) ==
    IF res.panic # ""
    THEN Panicked(name, r, res.panic)
    ELSE /\ op' = [name |-> name, recv |-> r]
         /\ panic' = ""
         /\ n' = -1
         /\ eq' = FALSE
         /\ ts' = [ts EXCEPT !["v"] = res.ret]
         /\ mem' = Collect(res.mem, ts')
         /\ calls' = [calls EXCEPT !["v"] = NotBuilt]
         /\ view' = IF res.ret = emptyTimeseries THEN [is |-> r = "t" \/ view.is, lo |-> 0]
                    ELSE IF r = "t" THEN [is |-> TRUE, lo |-> lo]
                    ELSE IF view.is THEN [is |-> TRUE, lo |-> view.lo + lo]
                    ELSE NoView
         /\ sorted' = sorted \ {"v"}

\* r.Len()
CallLen(r) ==
    LET res == TsLen(ts[r]) IN
    /\ op' = [name |-> "Len", recv |-> r]
    /\ panic' = res.panic
    /\ n' = res.n
    /\ eq' = FALSE
    /\ UNCHANGED <<mem, ts, calls, view, sorted>>

\* r.Equal(o)
CallEqual(r, o) ==
    LET res == Equal(mem, ts[r], ts[o]) IN
    /\ op' = [name |-> "Equal", recv |-> r]
    /\ panic' = res.panic
    /\ n' = -1
    /\ eq' = res.eq
    /\ UNCHANGED <<mem, ts, calls, view, sorted>>

\* v = r.After(x)
CallAfter(r, x) ==
    Viewed("After", r, After(mem, ts[r], x), findPivot(mem, ts[r], x))

\* v = r.Before(x)
CallBefore(r, x) ==
    Viewed("Before", r, Before(mem, ts[r], x), 0)

\* v = r.Between(x1, x2)
CallBetween(r, x1, x2) ==
    Viewed("Between", r, Between(mem, ts[r], x1, x2), findPivot(mem, ts[r], x1))

\* v = r.Slice(start, end)
CallSlice(r, start, end) ==
    Viewed("Slice", r, Slice(mem, ts[r], start, end), start)

\* r.Append(x, y), on a series that has room within the bound
CallAppend(r, x, y) ==
    /\ ts[r].Xs.len < MaxLen
    /\ ts[r].Ys.len < MaxLen
    /\ LET res == TsAppend(mem, BufsOf(ts, Names \ {r}), ts[r], x, y) IN
       IF res.panic # ""
       THEN Panicked("Append", r, res.panic)
       ELSE /\ op' = [name |-> "Append", recv |-> r]
            /\ panic' = ""
            /\ n' = -1
            /\ eq' = FALSE
            /\ ts' = [ts EXCEPT ![r] = res.ret]
            /\ mem' = Collect(res.mem, ts')
            /\ calls' = [calls EXCEPT ![r] =
                            IF @.built THEN [@ EXCEPT !.app = Append(@, <<x, y>>)] ELSE @]
            /\ view' = IF r \in {"t", "v"} THEN NoView ELSE view
            /\ sorted' = sorted \ {r}

\* r.Sort()
CallSort(r) ==
    \E res \in Sort(mem, ts[r]) :
        IF res.panic # ""
        THEN Panicked("Sort", r, res.panic)
        ELSE /\ op' = [name |-> "Sort", recv |-> r]
             /\ panic' = ""
             /\ n' = -1
             /\ eq' = FALSE
             /\ mem' = res.mem
             /\ sorted' = (IF r = "u" THEN sorted ELSE sorted \ {"t", "v"}) \cup {r}
             /\ UNCHANGED <<ts, calls, view>>

\* r.Xs[i] = x, written by the program itself
WriteXs(r, i, x) ==
    /\ i < ts[r].Xs.len
    /\ Index(mem, ts[r].Xs, i) # x
    /\ op' = [name |-> "Xs[i]=", recv |-> r]
    /\ panic' = ""
    /\ n' = -1
    /\ eq' = FALSE
    /\ mem' = [mem EXCEPT ![ts[r].Xs.buf] = [@ EXCEPT ![ts[r].Xs.off + i + 1] = x]]
    /\ sorted' = sorted \ {"t", "v"}
    /\ UNCHANGED <<ts, calls, view>>

\* r.Ys[i] = y, written by the program itself
WriteYs(r, i, y) ==
    /\ i < ts[r].Ys.len
    /\ Index(mem, ts[r].Ys, i) # y
    /\ op' = [name |-> "Ys[i]=", recv |-> r]
    /\ panic' = ""
    /\ n' = -1
    /\ eq' = FALSE
    /\ mem' = [mem EXCEPT ![ts[r].Ys.buf] = [@ EXCEPT ![ts[r].Ys.off + i + 1] = y]]
    /\ sorted' = sorted \ {"t", "v"}
    /\ UNCHANGED <<ts, calls, view>>

\* u = r.Difference()
CallDifference(r) ==
    LET res == Difference(mem, BufsOf(ts, Names), ts[r]) IN
    IF res.panic # ""
    THEN Panicked("Difference", r, res.panic)
    ELSE /\ op' = [name |-> "Difference", recv |-> r]
         /\ panic' = ""
         /\ n' = -1
         /\ eq' = FALSE
         /\ ts' = [ts EXCEPT !["u"] = res.ret]
         /\ mem' = Collect(res.mem, ts')
         /\ calls' = [calls EXCEPT !["u"] = NotBuilt]
         /\ UNCHANGED <<view, sorted>>

\* a call that returned res.ret, or panicked, and changed nothing
Answered(name, r, res) ==
    /\ op' = [name |-> name, recv |-> r, ret |-> res.ret]
    /\ panic' = res.panic
    /\ n' = -1
    /\ eq' = FALSE
    /\ UNCHANGED <<mem, ts, calls, view, sorted>>

\* r.First()
CallFirst(r) == Answered("First", r, First(mem, ts[r]))

\* r.Last()
CallLast(r) == Answered("Last", r, Last(mem, ts[r]))

\* the weights a program passes: none, len(x) ones, or the Ys of the slice v
WeightKinds == {"nil", "ones", "v"}

\* []float64{1, ..., 1} of the length of s
Ones(m, used, s) == SliceLiteral(m, used, [k \in 1..s.len |-> 1])

\* MeanSquaredError(t.Xs, t.Ys, weights, alpha, beta)
CallMeanSquaredError(w, alpha, beta) ==
    LET ones == Ones(mem, BufsOf(ts, Names), ts["t"].Xs)
        weights == IF w = "nil" THEN Nil ELSE IF w = "ones" THEN ones.s ELSE ts["v"].Ys
        res == MeanSquaredError(ones.mem, ts["t"].Xs, ts["t"].Ys, weights, alpha, beta)
    IN  /\ op' = [name |-> "MeanSquaredError", recv |-> "t", weights |-> w,
                  ret |-> res.mse]
        /\ panic' = res.panic
        /\ n' = -1
        /\ eq' = FALSE
        /\ UNCHANGED <<mem, ts, calls, view, sorted>>

---------------------------------------------------------------------------
(* Spec: a program that writes a series down, grows it, takes a view of it *)
(* and queries the series and the view                                     *)

Recv == {"t", "v"}

\* A panic ends the program.  Len and Equal change nothing, and a call on the
\* view v is the last call of a run: the program grows t, takes a view of it
\* and calls a method on the view.
Running == panic = "" /\ op.recv = "t" /\ op.name \notin {"Len", "Equal"}

Next ==
    /\ Running
    /\ \/ \E r \in Recv : CallLen(r)
       \/ \E r \in Recv, o \in Recv : CallEqual(r, o)
       \/ \E r \in Recv, x \in XArgs : CallAfter(r, x)
       \/ \E r \in Recv, x \in XArgs : CallBefore(r, x)
       \/ \E r \in Recv, x1 \in XArgs, x2 \in XArgs : CallBetween(r, x1, x2)
       \/ \E r \in Recv, start \in SliceArgs, end \in SliceArgs : CallSlice(r, start, end)
       \/ \E x \in XVals, y \in YVals : ts["v"] = emptyTimeseries /\ CallAppend("t", x, y)

Spec == Init /\ [][Next]_vars

---------------------------------------------------------------------------
(* SpecBuild: a program that builds t from the empty series with Append    *)
(* and Sort in any order and, once t is sorted, builds u from the points   *)
(* of t in an order of its own, sorts it and compares the two              *)

BuildRecv == {"t", "u"}

\* how many times p occurs in ps
Count(ps, p) == Cardinality({k \in 1..Len(ps) : ps[k] = p})

InitBuild == InitWith(<<>>, <<>>)

RunningBuild == panic = "" /\ op.name \notin {"Len", "Equal"}

NextBuild ==
    /\ RunningBuild
    /\ \/ \E x \in XVals, y \in YVals :
             ts["u"] = emptyTimeseries /\ CallAppend("t", x, y)
       \/ ts["u"] = emptyTimeseries /\ CallSort("t")
       \/ ts["u"] = emptyTimeseries /\ CallLen("t")
       \/ \E x \in XVals, y \in YVals :
             /\ "t" \in sorted /\ "u" \notin sorted
             /\ Count(calls["u"].app, <<x, y>>) < Count(calls["t"].app, <<x, y>>)
             /\ CallAppend("u", x, y)
       \/ ts["u"] # emptyTimeseries /\ CallSort("u")
       \/ sorted = BuildRecv /\ CallEqual("t", "u")

SpecBuild == InitBuild /\ [][NextBuild]_vars

---------------------------------------------------------------------------
(* SpecAlias: a program that writes a consistent series t down, takes a    *)
(* view v of it, changes elements through t and through v, and appends to  *)
(* the view                                                                *)

InitAlias ==
    \E l \in 0..MaxLen : \E xs \in [1..l -> XVals], ys \in [1..l -> YVals] :
        InitWith(xs, ys)

RunningAlias == panic = "" /\ op.name \notin {"Len", "Append"}

NextAlias ==
    /\ RunningAlias
    /\ \/ \E x \in XArgs : CallAfter("t", x)
       \/ \E x \in XArgs : CallBefore("t", x)
       \/ \E x1 \in XArgs, x2 \in XArgs : CallBetween("t", x1, x2)
       \/ \E start \in SliceArgs, end \in SliceArgs : CallSlice("t", start, end)
       \/ \E r \in Recv, i \in 0..(MaxLen - 1), x \in XVals : WriteXs(r, i, x)
       \/ \E r \in Recv, i \in 0..(MaxLen - 1), y \in YVals : WriteYs(r, i, y)
       \/ \E r \in Recv : CallSort(r)
       \/ \E x \in XVals, y \in YVals : view.is /\ CallAppend("v", x, y)
       \/ CallLen("t")

SpecAlias == InitAlias /\ [][NextAlias]_vars

---------------------------------------------------------------------------
(* SpecQuery: a program that writes a series t down, takes a slice v of it *)
(* and calls one of the methods that compute a result from a series        *)

InitQuery == Init

RunningQuery == panic = "" /\ op.name \in {"new", "Slice"}

NextQuery ==
    /\ RunningQuery
    /\ \/ \E start \in SliceArgs, end \in SliceArgs : CallSlice("t", start, end)
       \/ \E r \in Recv : CallDifference(r)
       \/ \E r \in Recv : CallFirst(r)
       \/ \E r \in Recv : CallLast(r)
       \/ \E w \in WeightKinds, alpha \in LineVals, beta \in LineVals :
             CallMeanSquaredError(w, alpha, beta)

SpecQuery == InitQuery /\ [][NextQuery]_vars

---------------------------------------------------------------------------
(* What the claims speak of *)

\* len(t.Xs) == len(t.Ys)
Consistent(t) == t.Xs.len = t.Ys.len

\* the points (Xs[i], Ys[i]) of a consistent t, in order
Points(m, t) == [k \in 1..t.Xs.len |-> <<Index(m, t.Xs, k - 1), Index(m, t.Ys, k - 1)>>]

\* the Xs of t are non-decreasing
IsSorted(m, t) ==
    \A i \in 0..(t.Xs.len - 1), j \in 0..(t.Xs.len - 1) :
        i < j => Index(m, t.Xs, i) <= Index(m, t.Xs, j)

\* the elements of the backing array that the slice s holds
Cells(s) == {<<s.buf, s.off + k>> : k \in 1..s.len}

\* the points of ps whose x is in S, in the order of ps
RECURSIVE Keep(_, _)
Keep(ps, S) ==
    IF ps = <<>> THEN <<>>
    ELSE IF Head(ps)[1] \in S
    THEN <<Head(ps)>> \o Keep(Tail(ps), S)
    ELSE Keep(Tail(ps), S)

\* the x of the points of a consistent t
XsOf(m, t) == {Index(m, t.Xs, i) : i \in 0..(t.Xs.len - 1)}

\* The last call gave the program the series r: t is what the program wrote
\* down or what Append left, v is what a call returned.  The states that
\* follow hold the same series until the next such call, so a claim about
\* every series the program holds is checked where the series appears.
ViewCalls == {"After", "Before", "Between", "Slice"}

Assigned(r) ==
    /\ panic = ""
    /\ \/ op.name = "new"
       \/ r = "t" /\ op = [name |-> "Append", recv |-> "t"]
       \/ r = "v" /\ op.name \in ViewCalls

---------------------------------------------------------------------------
(* Claims checked under Spec *)

\* C1: for every consistent series with non-decreasing Xs and every x,
\* Before(x).Len() + After(x).Len() == Len(), the two results share no element
\* of the series, and Before(x) followed by After(x) is the series, point for
\* point and in order.
C1_BeforeAfterPartition ==
    \A r \in Recv :
        Assigned(r) /\ Consistent(ts[r]) /\ IsSorted(mem, ts[r]) =>
          \A x \in XArgs :
            LET b == Before(mem, ts[r], x)
                a == After(mem, ts[r], x)
            IN  /\ b.panic = "" /\ a.panic = ""
                /\ TsLen(b.ret).n + TsLen(a.ret).n = TsLen(ts[r]).n
                /\ Cells(b.ret.Xs) \cap Cells(a.ret.Xs) = {}
                /\ Cells(b.ret.Ys) \cap Cells(a.ret.Ys) = {}
                /\ Cells(b.ret.Xs) \cup Cells(a.ret.Xs) = Cells(ts[r].Xs)
                /\ Cells(b.ret.Ys) \cup Cells(a.ret.Ys) = Cells(ts[r].Ys)
                /\ Points(mem, b.ret) \o Points(mem, a.ret) = Points(mem, ts[r])

\* v = t.After(x) split a sorted t in two non-empty parts
C1_Witness ==
    /\ op = [name |-> "After", recv |-> "t"] /\ panic = ""
    /\ Consistent(ts["t"]) /\ IsSorted(mem, ts["t"])
    /\ \E x \in XArgs :
          /\ ts["v"] = After(mem, ts["t"], x).ret
          /\ TsLen(ts["v"]).n > 0
          /\ TsLen(Before(mem, ts["t"], x).ret).n > 0

\* C2 as claimed: Between(x1, x2) is empty whenever x1 >= max(Xs) or
\* x2 <= min(Xs), and otherwise holds the points that are in both After(x1)
\* and Before(x2).
C2_Claimed ==
    \A r \in Recv :
        Assigned(r) /\ Consistent(ts[r]) /\ IsSorted(mem, ts[r]) /\ ts[r].Xs.len > 0 =>
          \A x1 \in XArgs, x2 \in XArgs :
            LET bt == Between(mem, ts[r], x1, x2).ret IN
            IF (\A x \in XsOf(mem, ts[r]) : x1 >= x) \/ (\A x \in XsOf(mem, ts[r]) : x2 <= x)
            THEN TsLen(bt).n = 0
            ELSE Cells(bt.Xs) = Cells(After(mem, ts[r], x1).ret.Xs)
                                \cap Cells(Before(mem, ts[r], x2).ret.Xs)

\* C2, amended: Between(x1, x2) is empty whenever x1 > max(Xs) or
\* x2 <= min(Xs), and it always holds the points that are in both After(x1)
\* and Before(x2).
C2_BetweenIntersection ==
    \A r \in Recv :
        Assigned(r) /\ Consistent(ts[r]) /\ IsSorted(mem, ts[r]) =>
          \A x1 \in XArgs, x2 \in XArgs :
            LET bt == Between(mem, ts[r], x1, x2)
                a == After(mem, ts[r], x1).ret
                b == Before(mem, ts[r], x2).ret
            IN  /\ bt.panic = ""
                /\ Consistent(bt.ret)
                /\ ts[r].Xs.len > 0
                   /\ ((\A x \in XsOf(mem, ts[r]) : x1 > x) \/ (\A x \in XsOf(mem, ts[r]) : x2 <= x))
                   => TsLen(bt.ret).n = 0
                /\ Cells(bt.ret.Xs) = Cells(a.Xs) \cap Cells(b.Xs)
                /\ Cells(bt.ret.Ys) = Cells(a.Ys) \cap Cells(b.Ys)

\* v = t.Between(x1, x2) with x1 the largest x of a sorted t: v is not empty
C2_Witness ==
    /\ op = [name |-> "Between", recv |-> "t"] /\ panic = ""
    /\ Consistent(ts["t"]) /\ IsSorted(mem, ts["t"])
    /\ \E x1 \in XArgs, x2 \in XArgs :
          /\ ts["v"] = Between(mem, ts["t"], x1, x2).ret
          /\ x1 \in XsOf(mem, ts["t"]) /\ \A x \in XsOf(mem, ts["t"]) : x1 >= x
          /\ TsLen(ts["v"]).n > 0
          /\ TsLen(ts["v"]).n < TsLen(ts["t"]).n

\* C4 as claimed: on every consistent series, views and grown series
\* included, Slice(start, end) panics whenever start/end violate
\* 0 <= start <= end <= Len(), and returns the points at [start, end) when
\* they do not.
C4_Claimed ==
    \A r \in Recv :
        Assigned(r) /\ Consistent(ts[r]) =>
          \A start \in SliceArgs, end \in SliceArgs :
            LET res == Slice(mem, ts[r], start, end) IN
            IF 0 <= start /\ start <= end /\ end <= TsLen(ts[r]).n
            THEN /\ res.panic = ""
                 /\ Points(mem, res.ret) = SubSeq(Points(mem, ts[r]), start + 1, end)
            ELSE res.panic = MsgBounds

\* C4, amended: Slice(start, end) panics exactly when start/end violate
\* 0 <= start <= end <= cap, the capacity of the backing arrays of Xs and Ys
\* (which exceeds Len() for a prefix view and for a series grown by Append),
\* and returns end-start points; when 0 <= start <= end <= Len() they are
\* the points at [start, end).
C4_SliceBounds ==
    \A r \in Recv :
        Assigned(r) /\ Consistent(ts[r]) =>
          \A start \in SliceArgs, end \in SliceArgs :
            LET res == Slice(mem, ts[r], start, end) IN
            /\ res.panic \in {"", MsgBounds}
            /\ res.panic = MsgBounds <=>
                  ~ (0 <= start /\ start <= end
                     /\ end <= ts[r].Xs.cap /\ end <= ts[r].Ys.cap)
            /\ res.panic = "" =>
                  /\ Consistent(res.ret)
                  /\ TsLen(res.ret).n = end - start
            /\ 0 <= start /\ start <= end /\ end <= TsLen(ts[r]).n =>
                  /\ res.panic = ""
                  /\ Points(mem, res.ret) = SubSeq(Points(mem, ts[r]), start + 1, end)

\* v = t.Slice(start, end) returned, on a t grown by Append, with end beyond
\* t.Len()
C4_Witness ==
    /\ op = [name |-> "Slice", recv |-> "t"] /\ panic = ""
    /\ calls["t"].app # <<>>
    /\ view.is
    /\ view.lo + ts["v"].Xs.len > TsLen(ts["t"]).n

\* C5 as claimed: on a series with len(Xs) != len(Ys), Len, After, Before and
\* Between panic with "timeseries: Xs and Ys slice length mismatch" and Equal,
\* with the series as receiver or as argument, panics with "timeseries: Xs and
\* Ys length mismatch".
C5_Claimed ==
    /\ op.name \in {"Len", "After", "Before", "Between"} /\ ~ Consistent(ts[op.recv])
       => panic = MsgSliceLength
    /\ \A r \in Recv, o \in Recv :
          ~ Consistent(ts[r]) \/ ~ Consistent(ts[o])
          => Equal(mem, ts[r], ts[o]).panic = MsgLength

\* C6: for every sorted, consistent series and every x, After(x) holds the
\* points with Xs[i] >= x and Before(x) the points with Xs[i] < x, each in the
\* order of the series; After(x) is empty when x exceeds every Xs[i].
C6_AfterBefore ==
    \A r \in Recv :
        Assigned(r) /\ Consistent(ts[r]) /\ IsSorted(mem, ts[r]) =>
          \A x \in XArgs :
            LET a == After(mem, ts[r], x)
                b == Before(mem, ts[r], x)
                ps == Points(mem, ts[r])
            IN  /\ a.panic = "" /\ b.panic = ""
                /\ Consistent(a.ret) /\ Consistent(b.ret)
                /\ Points(mem, a.ret) = Keep(ps, {p \in XsOf(mem, ts[r]) : p >= x})
                /\ Points(mem, b.ret) = Keep(ps, {p \in XsOf(mem, ts[r]) : p < x})
                /\ (\A p \in XsOf(mem, ts[r]) : x > p) => TsLen(a.ret).n = 0

\* v = t.After(x) with x the x of a point of a sorted t: v holds that point
\* and leaves out the points before it
C6_Witness ==
    /\ op = [name |-> "After", recv |-> "t"] /\ panic = ""
    /\ Consistent(ts["t"]) /\ IsSorted(mem, ts["t"])
    /\ \E x \in XsOf(mem, ts["t"]) :
          /\ ts["v"] = After(mem, ts["t"], x).ret
          /\ TsLen(ts["v"]).n > 0
          /\ Index(mem, ts["v"].Xs, 0) = x
          /\ TsLen(ts["v"]).n < TsLen(ts["t"]).n

\* C7: for every sorted, consistent series and every x1, x2, Between(x1, x2)
\* is After(x1).Before(x2), the points with x1 <= Xs[i] < x2 in order, and it
\* is empty whenever x1 >= x2.
C7_BetweenHalfOpen ==
    \A r \in Recv :
        Assigned(r) /\ Consistent(ts[r]) /\ IsSorted(mem, ts[r]) =>
          \A x1 \in XArgs, x2 \in XArgs :
            LET bt == Between(mem, ts[r], x1, x2) IN
            /\ bt.panic = ""
            /\ Consistent(bt.ret)
            /\ bt.ret = Before(mem, After(mem, ts[r], x1).ret, x2).ret
            /\ Points(mem, bt.ret) =
                  Keep(Points(mem, ts[r]), {p \in XsOf(mem, ts[r]) : x1 <= p /\ p < x2})
            /\ x1 >= x2 => TsLen(bt.ret).n = 0

\* v = t.Between(x1, x2) with points of a sorted t at x1 and at x2: v holds
\* the one at x1 and not the one at x2
C7_Witness ==
    /\ op = [name |-> "Between", recv |-> "t"] /\ panic = ""
    /\ Consistent(ts["t"]) /\ IsSorted(mem, ts["t"])
    /\ \E x1 \in XsOf(mem, ts["t"]), x2 \in XsOf(mem, ts["t"]) :
          /\ x1 < x2
          /\ ts["v"] = Between(mem, ts["t"], x1, x2).ret
          /\ TsLen(ts["v"]).n > 0
          /\ XsOf(mem, ts["v"]) = {x1}

---------------------------------------------------------------------------
(* Claims checked under SpecBuild *)

\* the multiset of the points of ps
BagOf(ps) == [p \in {ps[k] : k \in 1..Len(ps)} |-> Count(ps, p)]

\* points of ps with the same x have the same y
SameXSameY(ps) ==
    \A i \in 1..Len(ps), j \in 1..Len(ps) : ps[i][1] = ps[j][1] => ps[i][2] = ps[j][2]

\* C3 as claimed: t and u were built by Append from the same multiset of
\* points in different orders, whatever the multiset, and Sort() was called
\* on each: t.Equal(u) is true.
C3_Claimed ==
    /\ sorted = BuildRecv
    /\ calls["t"].app # calls["u"].app
    /\ BagOf(calls["t"].app) = BagOf(calls["u"].app)
    => Equal(mem, ts["t"], ts["u"]) = [panic |-> "", eq |-> TRUE]

\* C3, amended: t and u were built by Append from the same multiset of
\* points, in which points with the same x have the same y, and Sort() was
\* called on each: t.Equal(u) and u.Equal(t) are true.
C3_SortedEqual ==
    /\ sorted = BuildRecv
    /\ BagOf(calls["t"].app) = BagOf(calls["u"].app)
    /\ SameXSameY(calls["t"].app)
    => /\ Equal(mem, ts["t"], ts["u"]) = [panic |-> "", eq |-> TRUE]
       /\ Equal(mem, ts["u"], ts["t"]) = [panic |-> "", eq |-> TRUE]

\* t.Equal(u) returned true for t and u appended in different orders, u in
\* an order that Sort had to change
C3_Witness ==
    /\ op = [name |-> "Equal", recv |-> "t"] /\ panic = "" /\ eq
    /\ sorted = BuildRecv
    /\ calls["t"].app # calls["u"].app
    /\ BagOf(calls["t"].app) = BagOf(calls["u"].app)
    /\ SameXSameY(calls["t"].app)
    /\ Points(mem, ts["u"]) # calls["u"].app

\* C8: for every consistent series, in any order, Sort() returns and leaves
\* Xs non-decreasing, the length as it was and the multiset of the pairs
\* (Xs[i], Ys[i]) as it was.
C8_SortPermutes ==
    \A r \in BuildRecv :
        /\ panic = "" /\ Consistent(ts[r])
        /\ op.name = "new" \/ (op.name = "Append" /\ op.recv = r)
        =>
          /\ Sort(mem, ts[r]) # {}
          /\ \A res \in Sort(mem, ts[r]) :
                /\ res.panic = ""
                /\ res.ret = ts[r]
                /\ TsLen(res.ret) = TsLen(ts[r])
                /\ IsSorted(res.mem, res.ret)
                /\ BagOf(Points(res.mem, res.ret)) = BagOf(Points(mem, ts[r]))

\* t.Sort() returned and had to move points, two of which have the same x
\* and different y
C8_Witness ==
    /\ op = [name |-> "Sort", recv |-> "t"] /\ panic = ""
    /\ Points(mem, ts["t"]) # calls["t"].app
    /\ ~ SameXSameY(calls["t"].app)
    /\ IsSorted(mem, ts["t"])
    /\ BagOf(Points(mem, ts["t"])) = BagOf(calls["t"].app)

\* C10: a series that started empty and was changed by Append and Sort
\* only has len(Xs) = len(Ys) and Len() equal to the number of Append
\* calls, and Append(x, y) makes it its contents followed by (x, y).
C10_AppendGrows ==
    \A r \in BuildRecv :
        calls[r].built /\ (op.name = "new" \/ op.recv = r) =>
          /\ Consistent(ts[r])
          /\ TsLen(ts[r]) = [panic |-> "", n |-> Len(calls[r].app)]
          /\ \A x \in XVals, y \in YVals :
                LET res == TsAppend(mem, BufsOf(ts, Names \ {r}), ts[r], x, y) IN
                /\ res.panic = ""
                /\ Consistent(res.ret)
                /\ Points(res.mem, res.ret) = Append(Points(mem, ts[r]), <<x, y>>)

\* t.Append(x, y) returned after Sort() had reordered the earlier points:
\* they are where Sort left them and (x, y) is last
C10_Witness ==
    /\ op = [name |-> "Append", recv |-> "t"] /\ panic = ""
    /\ LET ps == Points(mem, ts["t"])
           app == calls["t"].app
       IN  /\ Len(ps) >= 3 /\ Len(app) = Len(ps)
           /\ SubSeq(ps, 1, Len(ps) - 1) # SubSeq(app, 1, Len(ps) - 1)
           /\ ps[Len(ps)] = app[Len(ps)]
           /\ ~ IsSorted(mem, ts["t"])

---------------------------------------------------------------------------
(* Claims checked under SpecAlias *)

\* v[k] and t[view.lo + k] have the same value, for the k that t has
Aliased ==
    \A k \in 0..(ts["v"].Xs.len - 1) :
        view.lo + k < ts["t"].Xs.len =>
          /\ Index(mem, ts["v"].Xs, k) = Index(mem, ts["t"].Xs, view.lo + k)
          /\ Index(mem, ts["v"].Ys, k) = Index(mem, ts["t"].Ys, view.lo + k)

\* C9: while v is a view that Slice, After, Before or Between returned on t,
\* the elements of v are those of t at the corresponding indices whatever
\* was written or sorted through t or through v, a write through v changes
\* t, and v.Append(x, y) leaves t.Len() as it was.
C9_ViewAliasing ==
    /\ [](view.is => Aliased)
    /\ [][/\ view.is /\ op'.recv = "v" /\ op'.name \in {"Xs[i]=", "Ys[i]="}
             => Points(mem', ts'["t"]) # Points(mem, ts["t"])
          /\ op' = [name |-> "Append", recv |-> "v"]
             => TsLen(ts'["t"]) = TsLen(ts["t"])]_vars

\* v.Xs[i] was written on a view v that starts inside t, and t has the value
\* at the corresponding index
C9_Witness ==
    /\ op = [name |-> "Xs[i]=", recv |-> "v"] /\ panic = ""
    /\ view.is /\ view.lo > 0
    /\ ts["v"].Xs.len > 0
    /\ Aliased
    /\ ts["v"].Xs.buf = ts["t"].Xs.buf

---------------------------------------------------------------------------
(* Equal, checked under SpecBuild on the series t and u *)

\* C11: for consistent series r and o, r.Equal(o) returns, and returns true
\* exactly when r.Len() = o.Len() and Xs[i], Ys[i] are the same in both for
\* every i; r.Equal(r) is true and r.Equal(o) = o.Equal(r).
C11_EqualPointwise ==
    \A r \in BuildRecv, o \in BuildRecv :
        Consistent(ts[r]) /\ Consistent(ts[o]) =>
          LET e == Equal(mem, ts[r], ts[o]) IN
          /\ e.panic = ""
          /\ e.eq <=>
                /\ TsLen(ts[r]).n = TsLen(ts[o]).n
                /\ \A i \in 0..(TsLen(ts[r]).n - 1) :
                      /\ Index(mem, ts[r].Xs, i) = Index(mem, ts[o].Xs, i)
                      /\ Index(mem, ts[r].Ys, i) = Index(mem, ts[o].Ys, i)
          /\ Equal(mem, ts[r], ts[r]).eq
          /\ e = Equal(mem, ts[o], ts[r])

\* t.Equal(u) returned false for t and u of the same length and the same Xs:
\* they differ in a y only
C11_Witness ==
    /\ op = [name |-> "Equal", recv |-> "t"] /\ panic = "" /\ ~ eq
    /\ TsLen(ts["t"]).n = TsLen(ts["u"]).n
    /\ Elems(mem, ts["t"].Xs) = Elems(mem, ts["u"].Xs)
    /\ Elems(mem, ts["t"].Ys) # Elems(mem, ts["u"].Ys)

---------------------------------------------------------------------------
(* Claims checked under SpecQuery *)

\* C12: for every consistent series of length n, Difference() returns the
\* empty series when n < 2, and otherwise a series of length n-1 with
\* Ys'[i] = Ys[i+1] - Ys[i] and Xs'[i] = Xs[i+1] for every i in [0, n-1);
\* the arrays of the series the program holds are left as they were.
C12_Difference ==
    \A r \in Recv :
        Assigned(r) /\ Consistent(ts[r]) =>
          LET res == Difference(mem, BufsOf(ts, Names), ts[r])
              len == TsLen(ts[r]).n
          IN  /\ res.panic = ""
              /\ len < 2 => res.ret = emptyTimeseries
              /\ len >= 2 =>
                    /\ Consistent(res.ret)
                    /\ TsLen(res.ret).n = len - 1
                    /\ \A i \in 0..(len - 2) :
                          /\ Index(res.mem, res.ret.Ys, i) =
                                Index(mem, ts[r].Ys, i + 1) - Index(mem, ts[r].Ys, i)
                          /\ Index(res.mem, res.ret.Xs, i) = Index(mem, ts[r].Xs, i + 1)
              /\ \A b \in BufsOf(ts, Names) : res.mem[b] = mem[b]

\* u = t.Difference() returned a series of two points or more, one of them
\* with a negative y
C12_Witness ==
    /\ op = [name |-> "Difference", recv |-> "t"] /\ panic = ""
    /\ TsLen(ts["u"]).n >= 2
    /\ TsLen(ts["u"]).n = TsLen(ts["t"]).n - 1
    /\ \E i \in 0..(TsLen(ts["u"]).n - 1) : Index(mem, ts["u"].Ys, i) < 0
    /\ Index(mem, ts["u"].Xs, 0) = Index(mem, ts["t"].Xs, 1)

\* the sum of (alpha + beta*x[i] - y[i])^2 over the first k elements
RECURSIVE SquaredResiduals(_, _, _, _, _, _)
SquaredResiduals(m, x, y, alpha, beta, k) ==
    IF k = 0 THEN 0
    ELSE LET d == alpha + beta * Index(m, x, k - 1) - Index(m, y, k - 1)
         IN  d * d + SquaredResiduals(m, x, y, alpha, beta, k - 1)

\* C13: MeanSquaredError(x, y, weights, alpha, beta) panics exactly when
\* len(x) != len(y) or weights is not nil and len(weights) != len(x);
\* otherwise, with weights nil and with weights len(x) ones, it returns the
\* sum of (alpha + beta*x[i] - y[i])^2 divided by len(x).
C13_MeanSquaredError ==
    panic = "" =>
      \A alpha \in LineVals, beta \in LineVals :
        LET x == ts["t"].Xs
            y == ts["t"].Ys
            ones == Ones(mem, BufsOf(ts, Names), x)
            nilw == MeanSquaredError(mem, x, y, Nil, alpha, beta)
            onew == MeanSquaredError(ones.mem, x, y, ones.s, alpha, beta)
        IN  /\ \A weights \in {Nil, ones.s, ts["v"].Xs, ts["v"].Ys, y} :
                  MeanSquaredError(ones.mem, x, y, weights, alpha, beta).panic =
                     IF x.len # y.len \/ (weights # Nil /\ weights.len # x.len)
                     THEN MsgStat ELSE ""
            /\ x.len = y.len =>
                  /\ nilw.mse = Quot(SquaredResiduals(mem, x, y, alpha, beta, x.len), x.len)
                  /\ onew = nilw

\* MeanSquaredError returned, without weights, a positive error over three
\* points or more
C13_Witness ==
    /\ op.name = "MeanSquaredError" /\ panic = ""
    /\ op.weights = "nil"
    /\ op.ret.num > 0
    /\ op.ret.den >= 3
    /\ op.ret.den = ts["t"].Xs.len

\* C15: on a consistent series, First() and Last() panic with "timeseries:
\* empty timeseries" when Len() = 0; otherwise First() returns (Xs[0], Ys[0])
\* and Last() returns (Xs[Len()-1], Ys[Len()-1]), the same point when
\* Len() = 1.
C15_FirstLast ==
    \A r \in Recv :
        Assigned(r) /\ Consistent(ts[r]) =>
          LET f == First(mem, ts[r])
              l == Last(mem, ts[r])
              len == TsLen(ts[r]).n
          IN  /\ len = 0 => f.panic = MsgEmpty /\ l.panic = MsgEmpty
              /\ len > 0 =>
                    /\ f = [panic |-> "",
                            ret |-> <<Index(mem, ts[r].Xs, 0), Index(mem, ts[r].Ys, 0)>>]
                    /\ l = [panic |-> "",
                            ret |-> <<Index(mem, ts[r].Xs, len - 1),
                                      Index(mem, ts[r].Ys, len - 1)>>]
              /\ len = 1 => f = l

\* v.Last() returned the last point of a slice v of t that ends before the
\* end of t and whose first point is another one
C15_Witness ==
    /\ op.name = "Last" /\ op.recv = "v" /\ panic = ""
    /\ view.is
    /\ TsLen(ts["v"]).n >= 2
    /\ view.lo + TsLen(ts["v"]).n < TsLen(ts["t"]).n
    /\ op.ret = Points(mem, ts["v"])[TsLen(ts["v"]).n]
    /\ op.ret[1] # Points(mem, ts["v"])[1][1]
    /\ op.ret[2] # Points(mem, ts["v"])[1][2]

---------------------------------------------------------------------------
(* findPivot, checked under Spec *)

\* C16: for every consistent series with non-decreasing Xs and every x,
\* findPivot(x) is the smallest index i in [0, Len()) with Xs[i] >= x, and
\* Len() when there is none; with several Xs equal to x it is the index of
\* the first of them.
C16_FindPivot ==
    \A r \in Recv :
        Assigned(r) /\ Consistent(ts[r]) /\ IsSorted(mem, ts[r]) =>
          \A x \in XArgs :
            LET i == findPivot(mem, ts[r], x)
                len == TsLen(ts[r]).n
            IN  /\ i \in 0..len
                /\ i < len => Index(mem, ts[r].Xs, i) >= x
                /\ \A k \in 0..(i - 1) : Index(mem, ts[r].Xs, k) < x
                /\ (\A k \in 0..(len - 1) : Index(mem, ts[r].Xs, k) < x) => i = len

\* v = t.After(x) starts at findPivot(x), the first of two elements of t
\* equal to x, which is not the first element of t
C16_Witness ==
    /\ op = [name |-> "After", recv |-> "t"] /\ panic = ""
    /\ Consistent(ts["t"]) /\ IsSorted(mem, ts["t"])
    /\ view.is /\ view.lo >= 1
    /\ view.lo + 1 < TsLen(ts["t"]).n
    /\ \E x \in XArgs :
          /\ findPivot(mem, ts["t"], x) = view.lo
          /\ ts["v"] = After(mem, ts["t"], x).ret
          /\ Index(mem, ts["t"].Xs, view.lo) = x
          /\ Index(mem, ts["t"].Xs, view.lo + 1) = x

---------------------------------------------------------------------------
(* Append on a view, checked under SpecAlias *)

\* C17: v is a view of t that shares its arrays and ends at index j of t,
\* before the end of t (v = t.Before(x) with pivot j, v = t.Slice(a, j)),
\* and nothing was appended since: v.Append(x, y) leaves t.Len() as it
\* was, puts (x, y) at index j of t and leaves the other points of t as
\* they were.
C17_AppendOverwrites ==
    [][/\ op' = [name |-> "Append", recv |-> "v"] /\ panic' = ""
       /\ view.is
       /\ ts["v"].Xs.buf = ts["t"].Xs.buf /\ ts["v"].Ys.buf = ts["t"].Ys.buf
       /\ view.lo + ts["v"].Xs.len < ts["t"].Xs.len
       => LET j == view.lo + ts["v"].Xs.len
              appended == Points(mem', ts'["v"])[ts'["v"].Xs.len]
          IN  /\ ts'["t"] = ts["t"]
              /\ TsLen(ts'["t"]) = TsLen(ts["t"])
              /\ Points(mem', ts'["t"]) = [Points(mem, ts["t"]) EXCEPT ![j + 1] = appended]
              /\ ts'["v"].Xs.len = ts["v"].Xs.len + 1
              /\ \E x \in XVals, y \in YVals : appended = <<x, y>>]_vars

\* v.Append(x, y) returned on a view that shares the arrays of t, and t,
\* which Sort() had sorted, is no longer sorted: a point of t was replaced
C17_Witness ==
    /\ op = [name |-> "Append", recv |-> "v"] /\ panic = ""
    /\ ts["v"].Xs.buf = ts["t"].Xs.buf /\ ts["v"].Ys.buf = ts["t"].Ys.buf
    /\ ts["v"].Xs.off + ts["v"].Xs.len <= ts["t"].Xs.len
    /\ "t" \in sorted
    /\ ~ IsSorted(mem, ts["t"])

====
